---- MODULE Spec2Model ----
(***************************************************************************)
(* A model of the provider/registry/client layer of text_to_speech:        *)
(*   - VoiceInfo and its derived hash_id (providers/base.py),              *)
(*   - TTSProvider.find_voice_by_hash_id (providers/base.py),              *)
(*   - ProviderRegistry (registry.py),                                     *)
(*   - TTSClient.start / convert (client.py).                              *)
(* Python str values are TLA+ strings, bytes values are sequences of       *)
(* numbers, None is the string "None" where a str or an object is optional.*)
(***************************************************************************)
EXTENDS Integers, Sequences, FiniteSets, TLC

(***************************************************************************)
(* hashlib.md5(content.encode('utf-8')).hexdigest()[:16]                   *)
(* MD5 (RFC 1321) on 32-bit words kept as <<high 16 bits, low 16 bits>>.   *)
(* The model's strings are ASCII, for which utf-8 is one byte per          *)
(* character.                                                              *)
(***************************************************************************)
\* the characters of the model's strings, by code point: 45..90, 95, 97..122
AsciiUpper == "-./0123456789:;<=>?@ABCDEFGHIJKLMNOPQRSTUVWXYZ"

AsciiLower == "abcdefghijklmnopqrstuvwxyz"

CharAt(s, i) == SubSeq(s, i, i)

IndexIn(s, c) == CHOOSE i \in 1..Len(s) : CharAt(s, i) = c

HasChar(s, c) == \E i \in 1..Len(s) : CharAt(s, i) = c

Ord(c) ==
  IF HasChar(AsciiLower, c) THEN 96 + IndexIn(AsciiLower, c)
  ELSE IF c = "_" THEN 95
  ELSE 44 + IndexIn(AsciiUpper, c)

encode_utf8(s) == [i \in 1..Len(s) |-> Ord(CharAt(s, i))]

Add32(a, b) ==
  LET lo == a[2] + b[2]
      hi == a[1] + b[1] + (lo \div 65536)
  IN  <<hi % 65536, lo % 65536>>

\* the four auxiliary functions F, G, H, I of MD5 on one bit each
MD5Bit(r, b, c, d) ==
  CASE r = 0 -> IF b = 1 THEN c ELSE d
    [] r = 1 -> IF d = 1 THEN b ELSE c
    [] r = 2 -> (b + c + d) % 2
    [] r = 3 -> (c + (IF b = 1 \/ d = 0 THEN 1 ELSE 0)) % 2

RECURSIVE MD5Mix16(_, _, _, _, _)
MD5Mix16(r, b, c, d, n) ==
  IF n = 0 THEN 0
  ELSE MD5Bit(r, b % 2, c % 2, d % 2)
       + 2 * MD5Mix16(r, b \div 2, c \div 2, d \div 2, n - 1)

MD5Mix(r, b, c, d) ==
  <<MD5Mix16(r, b[1], c[1], d[1], 16), MD5Mix16(r, b[2], c[2], d[2], 16)>>

RECURSIVE RotL32(_, _)
RotL32(x, s) ==
  IF s >= 16 THEN RotL32(<<x[2], x[1]>>, s - 16)
  ELSE IF s = 0 THEN x
  ELSE <<((x[1] * 2^s) % 65536) + (x[2] \div 2^(16 - s)),
         ((x[2] * 2^s) % 65536) + (x[1] \div 2^(16 - s))>>

MD5Shift ==
  <<<<7, 12, 17, 22>>, <<5, 9, 14, 20>>, <<4, 11, 16, 23>>, <<6, 10, 15, 21>>>>

\* floor(2^32 * abs(sin(i + 1))), i = 0..63
MD5K ==
   <<<<55146, 42104>>, <<59591, 46934>>, <<9248, 28891>>, <<49597, 52974>>,
     <<62844, 4015>>, <<18311, 50730>>, <<43056, 17939>>, <<64838, 38145>>,
     <<27008, 39128>>, <<35652, 63407>>, <<65535, 23473>>, <<35164, 55230>>,
     <<27536, 4386>>, <<64920, 29075>>, <<42617, 17294>>, <<18868, 2081>>,
     <<63006, 9570>>, <<49216, 45888>>, <<9822, 23121>>, <<59830, 51114>>,
     <<54831, 4189>>, <<580, 5203>>, <<55457, 59009>>, <<59347, 64456>>,
     <<8673, 52710>>, <<49975, 2006>>, <<62677, 3463>>, <<17754, 5357>>,
     <<43491, 59653>>, <<64751, 41976>>, <<26479, 729>>, <<36138, 19594>>,
     <<65530, 14658>>, <<34673, 63105>>, <<28061, 24866>>, <<64997, 14348>>,
     <<42174, 59972>>, <<19422, 53161>>, <<63163, 19296>>, <<48831, 48240>>,
     <<10395, 32454>>, <<60065, 10234>>, <<54511, 12421>>, <<1160, 7429>>,
     <<55764, 53305>>, <<59099, 39397>>, <<8098, 31992>>, <<50348, 22117>>,
     <<62505, 8772>>, <<17194, 65431>>, <<43924, 9127>>, <<64659, 41017>>,
     <<25947, 22979>>, <<36620, 52370>>, <<65519, 62589>>, <<34180, 24017>>,
     <<28584, 32335>>, <<65068, 59104>>, <<41729, 17172>>, <<19976, 4513>>,
     <<63315, 32386>>, <<48442, 62005>>, <<10967, 53947>>, <<60294, 54161>>>>

MD5InitState ==
  <<<<26437, 8961>>, <<61389, 43913>>, <<39098, 56574>>, <<4146, 21622>>>>

\* message padded to a multiple of 64 bytes: 0x80, zeros, bit length (64-bit LE)
MD5Pad(bytes) ==
  LET n     == Len(bytes)
      zeros == (119 - (n % 64)) % 64
      bits  == 8 * n
  IN  bytes \o <<128>> \o [i \in 1..zeros |-> 0]
      \o [k \in 1..8 |-> IF k <= 3 THEN (bits \div 256^(k - 1)) % 256 ELSE 0]

\* the j-th (0-based) little-endian word of the block starting at byte off
MD5Word(m, off, j) ==
  LET p == off + 4 * j
  IN  <<m[p + 3] + 256 * m[p + 4], m[p + 1] + 256 * m[p + 2]>>

MD5Index(i) ==
  CASE i \div 16 = 0 -> i
    [] i \div 16 = 1 -> (5 * i + 1) % 16
    [] i \div 16 = 2 -> (3 * i + 5) % 16
    [] i \div 16 = 3 -> (7 * i) % 16

\* round i (0-based) of the block starting at byte off
MD5Step(st, m, off, i) ==
  LET r == i \div 16
      f == Add32(Add32(MD5Mix(r, st[2], st[3], st[4]), st[1]),
                 Add32(MD5K[i + 1], MD5Word(m, off, MD5Index(i))))
  IN  <<st[4],
        Add32(st[2], RotL32(f, MD5Shift[r + 1][(i % 4) + 1])),
        st[2],
        st[3]>>

\* rounds i..63 applied to a well-formed state st = <<A, B, C, D>>
RECURSIVE MD5Rounds(_, _, _, _)
MD5Rounds(st, m, off, i) ==
  IF i = 64 \/ Len(st) # 4 THEN st
  ELSE MD5Rounds(MD5Step(st, m, off, i), m, off, i + 1)

\* the state after the first n blocks
RECURSIVE MD5Blocks(_, _)
MD5Blocks(m, n) ==
  IF n = 0 THEN MD5InitState
  ELSE LET st == MD5Blocks(m, n - 1)
           t  == MD5Rounds(st, m, 64 * (n - 1), 0)
       IN  <<Add32(st[1], t[1]), Add32(st[2], t[2]),
             Add32(st[3], t[3]), Add32(st[4], t[4])>>

HexDigits == "0123456789abcdef"

HexByte(b) == CharAt(HexDigits, (b \div 16) + 1) \o CharAt(HexDigits, (b % 16) + 1)

HexWordLE(w) ==
  HexByte(w[2] % 256) \o HexByte(w[2] \div 256)
  \o HexByte(w[1] % 256) \o HexByte(w[1] \div 256)

md5_hexdigest(bytes) ==
  LET m  == MD5Pad(bytes)
      st == MD5Blocks(m, Len(m) \div 64)
  IN  HexWordLE(st[1]) \o HexWordLE(st[2]) \o HexWordLE(st[3]) \o HexWordLE(st[4])

(***************************************************************************)
(* str.lower() / str.upper() on the model's ASCII strings                  *)
(***************************************************************************)
LowerChar(c) ==
  CASE c = "A" -> "a" [] c = "B" -> "b" [] c = "C" -> "c" [] c = "D" -> "d"
    [] c = "E" -> "e" [] c = "F" -> "f" [] c = "G" -> "g" [] c = "H" -> "h"
    [] c = "I" -> "i" [] c = "J" -> "j" [] c = "K" -> "k" [] c = "L" -> "l"
    [] c = "M" -> "m" [] c = "N" -> "n" [] c = "O" -> "o" [] c = "P" -> "p"
    [] c = "Q" -> "q" [] c = "R" -> "r" [] c = "S" -> "s" [] c = "T" -> "t"
    [] c = "U" -> "u" [] c = "V" -> "v" [] c = "W" -> "w" [] c = "X" -> "x"
    [] c = "Y" -> "y" [] c = "Z" -> "z"
    [] OTHER -> c

UpperChar(c) ==
  CASE c = "a" -> "A" [] c = "b" -> "B" [] c = "c" -> "C" [] c = "d" -> "D"
    [] c = "e" -> "E" [] c = "f" -> "F" [] c = "g" -> "G" [] c = "h" -> "H"
    [] c = "i" -> "I" [] c = "j" -> "J" [] c = "k" -> "K" [] c = "l" -> "L"
    [] c = "m" -> "M" [] c = "n" -> "N" [] c = "o" -> "O" [] c = "p" -> "P"
    [] c = "q" -> "Q" [] c = "r" -> "R" [] c = "s" -> "S" [] c = "t" -> "T"
    [] c = "u" -> "U" [] c = "v" -> "V" [] c = "w" -> "W" [] c = "x" -> "X"
    [] c = "y" -> "Y" [] c = "z" -> "Z"
    [] OTHER -> c

RECURSIVE lower(_)
lower(s) ==
  IF Len(s) = 0 THEN "" ELSE LowerChar(CharAt(s, 1)) \o lower(SubSeq(s, 2, Len(s)))

RECURSIVE upper(_)
upper(s) ==
  IF Len(s) = 0 THEN "" ELSE UpperChar(CharAt(s, 1)) \o upper(SubSeq(s, 2, Len(s)))

\* s with the characters at odd positions in upper case, the others unchanged
RECURSIVE MixedCase(_)
MixedCase(s) ==
  IF Len(s) = 0 THEN ""
  ELSE IF Len(s) = 1 THEN UpperChar(s)
  ELSE UpperChar(CharAt(s, 1)) \o CharAt(s, 2) \o MixedCase(SubSeq(s, 3, Len(s)))

Range(f) == {f[i] : i \in DOMAIN f}

\* b''.join(chunks)
RECURSIVE Concat(_)
Concat(chunks) ==
  IF chunks = <<>> THEN <<>> ELSE Head(chunks) \o Concat(Tail(chunks))

VARIABLES
  md5_memo,    \* md5_hexdigest(encode_utf8(s)) for every string s the model hashes,
               \* tabulated once in Init (md5 is a pure function)
  providers,   \* ProviderRegistry._providers: a dict in insertion order, as the
               \* sequence of its items [name, provider]
  heap,        \* the VoiceInfo objects that are reachable, by reference
  ret,         \* what the last registry or provider call returned or raised
  lastOp,      \* history: the last register/unregister call made for each name
  client,      \* the TTSClient object: content, spk_id, callback (set or not), audio
  pc,          \* where the running start()/convert() call is
  entry,       \* the method the caller called: "start" or "convert"
  output_path, \* convert's output_path argument
  error_msg,   \* the local error_msg of start()'s except block
  outcome,     \* how the last call ended: what it returned or raised
  files,       \* the files save_audio_file has written, as [path, data] items
  calls,       \* history: the number of start() calls begun on the client
  yielded,     \* history: the chunks the provider yielded in the current call
  events,      \* history: the TTSResult values the callback received in the current call
  cause,       \* history: who raised in the current call: "", "provider" or "callback"
  engine,      \* LocalTTSProvider: self.engine (its voices, its 'voice' property, its
               \* command queue) and self.default_language
  tmpfs,       \* the files in the temporary directory: path -> content
  thread_call, \* the provider call each thread is running, and where it is
  http,        \* the TTS service a StreamTTSProvider talks to: how its /voices
               \* endpoint answers, and the form data it received
  agg          \* the running ProviderRegistry.list_all_voices() call: its dict
               \* iterator and the voices collected so far

registryVars == <<md5_memo, providers, heap, ret, lastOp>>

clientVars ==
  <<client, pc, entry, output_path, error_msg, outcome, files, calls, yielded,
    events, cause>>

backendVars == <<engine, tmpfs, thread_call, http, agg>>

vars == <<registryVars, clientVars, backendVars>>

(***************************************************************************)
(* The providers of the model: three provider objects.                     *)
(*   E  an EdgeTTSProvider (providers/edge/provider.py);                   *)
(*   K  a TTSProvider subclass that builds its VoiceInfo list once, in its *)
(*      constructor, and returns those same objects from every             *)
(*      list_voices() call;                                                *)
(*   F  a TTSProvider subclass whose list_voices() raises.                 *)
(***************************************************************************)
NoneVal == "None"

ProviderIds == {"E", "K", "F"}

\* registration names callers use
Names == {"a", "b", "edge"}

\* provider_name arguments of registry.synthesize: a name, "" or None
NameArgs == Names \cup {"ghost", "", NoneVal}

\* two of the 22 entries of PRESET_VOICES (the first zh and the first en voice;
\* the display name of the first is written in pinyin)
PRESET_VOICES ==
  <<[id |-> "zh-CN-XiaoxiaoNeural", name |-> "Xiaoxiao", language |-> "zh", gender |-> "female"],
    [id |-> "en-US-JennyNeural", name |-> "Jenny", language |-> "en", gender |-> "female"]>>

\* what K's constructor lists: two voices with the same (provider, id, language)
CustomVoices ==
  <<[id |-> "v1", name |-> "Alpha", language |-> "zh", gender |-> ""],
    [id |-> "v1", name |-> "Beta", language |-> "zh", gender |-> ""]>>

\* the `name` property of a provider
name_property(p) ==
  CASE p = "E" -> "edge"
    [] p = "K" -> "CachingProvider"
    [] p = "F" -> "FailingProvider"

\* the provider string a provider's list_voices() constructs its VoiceInfo with
provider_stamp(p) == IF p = "E" THEN "edge" ELSE "custom"

HashContents ==
  {pr \o ":" \o id \o ":" \o lang :
     pr \in Names \cup {"edge", "custom"},
     id \in {v.id : v \in Range(PRESET_VOICES) \cup Range(CustomVoices)},
     lang \in {"zh", "en"}}

\* hashlib.md5(content.encode('utf-8')).hexdigest()
hashlib_md5_hexdigest(content) == md5_memo[content]

generate_hash_id_no_language(provider, original_id, language) ==
  SubSeq(hashlib_md5_hexdigest(provider \o ":" \o original_id \o ":" \o "zh"), 1, 16)

generate_hash_id(provider, original_id, language) ==
  LET content == provider \o ":" \o original_id \o ":" \o language
  IN  SubSeq(hashlib_md5_hexdigest(content), 1, 16)

\* VoiceInfo(...) with __post_init__: hash_id is "" after __init__, so it is
\* always generated.  sample_url and description are left out.
VoiceInfo(id, name, provider, language, gender) ==
  [id |-> id, name |-> name, provider |-> provider, language |-> language,
   gender |-> gender, hash_id |-> generate_hash_id(provider, id, language)]

(***************************************************************************)
(* Objects.  A reference is <<provider object, tag, index>>: the objects K *)
(* made in its constructor have tag "", the objects a list_voices() call   *)
(* constructs get the tag of the call.  Only K's objects and the objects   *)
(* of the last call's result are kept in heap.                             *)
(***************************************************************************)
CachedRefs == {<<"K", "", i>> : i \in 1..Len(CustomVoices)}

cached_objects(h) == [r \in CachedRefs |-> h[r]]

\* provider.list_voices(): [raised, refs, heap]
provider_list_voices(p, h, tag) ==
  CASE p = "E" ->
         LET refs == [i \in 1..Len(PRESET_VOICES) |-> <<"E", tag, i>>]
             new  == [r \in Range(refs) |->
                        LET v == PRESET_VOICES[r[3]]
                        IN  VoiceInfo(v.id, v.name, "edge", v.language, v.gender)]
         IN  [raised |-> FALSE, refs |-> refs, heap |-> new @@ h]
    [] p = "K" ->
         [raised |-> FALSE,
          refs |-> [i \in 1..Len(CustomVoices) |-> <<"K", "", i>>],
          heap |-> h]
    [] p = "F" ->
         [raised |-> TRUE, refs |-> <<>>, heap |-> h]

\* the loop comparing hash_id as given, without lower()
RECURSIVE find_voice_loop_case_sensitive(_, _, _, _)
find_voice_loop_case_sensitive(refs, h, hash_id, k) ==
  IF k > Len(refs) THEN <<>>
  ELSE IF h[refs[k]].hash_id = hash_id THEN <<refs[k]>>
  ELSE find_voice_loop_case_sensitive(refs, h, hash_id, k + 1)

\* the loop of TTSProvider.find_voice_by_hash_id from the k-th listed voice on
RECURSIVE find_voice_loop(_, _, _, _)
find_voice_loop(refs, h, hash_id, k) ==
  IF k > Len(refs) THEN <<>>
  ELSE IF lower(h[refs[k]].hash_id) = lower(hash_id) THEN <<refs[k]>>
  ELSE find_voice_loop(refs, h, hash_id, k + 1)

\* TTSProvider.find_voice_by_hash_id: [raised, found, heap]; found is <<>> for
\* None and <<ref>> for a VoiceInfo
provider_find_voice_by_hash_id(p, h, hash_id) ==
  LET lv == provider_list_voices(p, h, "")
  IN  IF lv.raised THEN [raised |-> TRUE, found |-> <<>>, heap |-> h]
      ELSE [raised |-> FALSE,
            found |-> find_voice_loop(lv.refs, lv.heap, hash_id, 1),
            heap |-> lv.heap]

\* provider.synthesize(text, spk_id) as the registry and the client see it: the
\* chunks the generator yields and whether it then raises.  E yields its whole
\* audio as one chunk, K streams two chunks, F raises after its first chunk.
provider_synthesize(p, text, spk_id) ==
  CASE p = "E" -> [chunks |-> <<<<1, 2>>>>, raises |-> FALSE]
    [] p = "K" -> [chunks |-> <<<<3>>, <<4, 5>>>>, raises |-> FALSE]
    [] p = "F" -> [chunks |-> <<<<6>>>>, raises |-> TRUE]

(***************************************************************************)
(* ProviderRegistry (registry.py)                                          *)
(***************************************************************************)
HasKey(d, name) == \E i \in DOMAIN d : d[i].name = name

\* dict.setdefault in place of item assignment: an existing entry is kept
dict_setdefault(d, name, provider) ==
  IF HasKey(d, name) THEN d
  ELSE Append(d, [name |-> name, provider |-> provider])

\* self._providers[name] = provider
dict_setitem(d, name, provider) ==
  IF HasKey(d, name)
  THEN [i \in DOMAIN d |->
          IF d[i].name = name THEN [name |-> name, provider |-> provider] ELSE d[i]]
  ELSE Append(d, [name |-> name, provider |-> provider])

\* del self._providers[name]
dict_delitem(d, name) == SelectSeq(d, LAMBDA e : e.name # name)

\* a lookup that falls back to the first provider for an absent name
get_or_first(name) ==
  IF HasKey(providers, name)
  THEN (CHOOSE e \in Range(providers) : e.name = name).provider
  ELSE IF providers = <<>> THEN NoneVal ELSE providers[1].provider

\* self._providers.get(name)
get(name) ==
  IF HasKey(providers, name)
  THEN (CHOOSE e \in Range(providers) : e.name = name).provider
  ELSE NoneVal

\* list(self._providers.keys())
list_providers == [i \in DOMAIN providers |-> providers[i].name]

NoRet(op) ==
  [op |-> op, name |-> "", provider |-> "", hash_id |-> "",
   exc |-> "", msg |-> "", voices |-> <<>>, found |-> <<>>,
   audio |-> <<>>, invoked |-> <<>>]

register(name, provider) ==
  /\ providers' = dict_setitem(providers, name, provider)
  /\ lastOp' = [lastOp EXCEPT ![name] = [op |-> "register", provider |-> provider]]
  /\ heap' = cached_objects(heap)
  /\ ret' = [NoRet("register") EXCEPT !.name = name, !.provider = provider]
  /\ UNCHANGED <<md5_memo, clientVars, backendVars>>

unregister(name) ==
  /\ providers' = IF HasKey(providers, name) THEN dict_delitem(providers, name)
                  ELSE providers
  /\ lastOp' = [lastOp EXCEPT ![name] = [op |-> "unregister", provider |-> NoneVal]]
  /\ heap' = cached_objects(heap)
  /\ ret' = [NoRet("unregister") EXCEPT !.name = name]
  /\ UNCHANGED <<md5_memo, clientVars, backendVars>>

\* the loop without its try/except: the first failing provider ends the call
RECURSIVE list_all_voices_loop_abort(_, _, _, _)
list_all_voices_loop_abort(items, k, h, voices) ==
  IF k > Len(items) THEN [voices |-> voices, heap |-> h]
  ELSE LET name == items[k].name
           lv   == provider_list_voices(items[k].provider, h, name)
       IN  IF lv.raised
           THEN [voices |-> voices, heap |-> h]
           ELSE list_all_voices_loop_abort(
                  items, k + 1,
                  [r \in DOMAIN lv.heap |->
                     IF r \in Range(lv.refs)
                     THEN [lv.heap[r] EXCEPT !.provider = name]
                     ELSE lv.heap[r]],
                  voices \o [i \in DOMAIN lv.refs |->
                               [ref |-> lv.refs[i], via |-> name,
                                from |-> items[k].provider]])

\* the loop of list_all_voices over self._providers.items(), from item k on.
\* A returned entry is the reference of the VoiceInfo; `via` and `from` record
\* the key and the provider through which the entry was reached.
RECURSIVE list_all_voices_loop(_, _, _, _)
list_all_voices_loop(items, k, h, voices) ==
  IF k > Len(items) THEN [voices |-> voices, heap |-> h]
  ELSE LET name == items[k].name
           lv   == provider_list_voices(items[k].provider, h, name)
       IN  IF lv.raised
           THEN list_all_voices_loop(items, k + 1, h, voices)
           ELSE list_all_voices_loop(
                  items, k + 1,
                  [r \in DOMAIN lv.heap |->
                     IF r \in Range(lv.refs)
                     THEN [lv.heap[r] EXCEPT !.provider = name]
                     ELSE lv.heap[r]],
                  voices \o [i \in DOMAIN lv.refs |->
                               [ref |-> lv.refs[i], via |-> name,
                                from |-> items[k].provider]])

list_all_voices ==
  LET r == list_all_voices_loop(providers, 1, cached_objects(heap), <<>>)
  IN  /\ heap' = r.heap
      /\ ret' = [NoRet("list_all_voices") EXCEPT !.voices = r.voices]
      /\ UNCHANGED <<md5_memo, providers, lastOp, clientVars, backendVars>>

\* provider.list_voices() called directly on a provider object
list_voices(p) ==
  LET lv == provider_list_voices(p, cached_objects(heap), "")
  IN  /\ heap' = lv.heap
      /\ ret' = [NoRet("list_voices") EXCEPT
                   !.provider = p,
                   !.exc = IF lv.raised THEN "Exception" ELSE "",
                   !.msg = IF lv.raised THEN "list_voices failed" ELSE "",
                   !.voices = [i \in DOMAIN lv.refs |->
                                 [ref |-> lv.refs[i], via |-> "", from |-> p]]]
      /\ UNCHANGED <<md5_memo, providers, lastOp, clientVars, backendVars>>

\* the hash_id arguments tried: the hash_id of a listed voice in lower, upper
\* and mixed case, and strings that are no listed voice's hash_id
HashArgs ==
  LET listed == {generate_hash_id("edge", PRESET_VOICES[1].id, PRESET_VOICES[1].language),
                 generate_hash_id("custom", CustomVoices[1].id, CustomVoices[1].language)}
  IN  listed \cup {upper(h) : h \in listed} \cup {MixedCase(h) : h \in listed}
      \cup {"default", "DEFAULT"}

find_voice_by_hash_id(p, hash_id) ==
  LET f == provider_find_voice_by_hash_id(p, cached_objects(heap), hash_id)
  IN  /\ heap' = f.heap
      /\ ret' = [NoRet("find_voice_by_hash_id") EXCEPT
                   !.provider = p, !.hash_id = hash_id,
                   !.exc = IF f.raised THEN "Exception" ELSE "",
                   !.msg = IF f.raised THEN "list_voices failed" ELSE "",
                   !.found = f.found]
      /\ UNCHANGED <<md5_memo, providers, lastOp, clientVars, backendVars>>

\* audio = chunk + audio
RECURSIVE accumulate_prepend(_, _)
accumulate_prepend(audio, chunks) ==
  IF chunks = <<>> THEN audio
  ELSE accumulate_prepend(Head(chunks) \o audio, Tail(chunks))

\* audio = b''; for chunk in ...: audio += chunk
RECURSIVE accumulate(_, _)
accumulate(audio, chunks) ==
  IF chunks = <<>> THEN audio
  ELSE accumulate(audio \o Head(chunks), Tail(chunks))

\* next(iter(self._providers.values()), None)
first_provider == IF providers = <<>> THEN NoneVal ELSE providers[1].provider

\* ProviderRegistry.synthesize(text, spk_id, provider_name)
synthesize(text, spk_id, provider_name) ==
  LET named    == provider_name # NoneVal /\ provider_name # ""
      provider == IF named THEN get(provider_name) ELSE first_provider
      s        == provider_synthesize(provider, text, spk_id)
      call     == [NoRet("synthesize") EXCEPT !.name = provider_name]
  IN  /\ ret' =
           IF provider = NoneVal
           THEN [call EXCEPT
                   !.exc = "ValueError",
                   !.msg = IF named THEN "Provider not found: " \o provider_name
                           ELSE "No provider registered"]
           ELSE IF s.raises
           THEN [call EXCEPT
                   !.exc = "Exception", !.msg = "synthesize failed",
                   !.invoked = <<[provider |-> provider, text |-> text, spk_id |-> spk_id]>>]
           ELSE [call EXCEPT
                   !.audio = accumulate(<<>>, s.chunks),
                   !.invoked = <<[provider |-> provider, text |-> text, spk_id |-> spk_id]>>]
      /\ heap' = cached_objects(heap)
      /\ UNCHANGED <<md5_memo, providers, lastOp, clientVars, backendVars>>

(***************************************************************************)
(* TTSClient (client.py).  The provider given to the client is any         *)
(* TTSProvider: at each step of the loop its generator yields a chunk,     *)
(* ends, or raises.  The callback, when set, returns or raises at each     *)
(* invocation.                                                             *)
(***************************************************************************)
MaxChunks == 3

MaxCalls == 2

ChunkValues == {<<7>>, <<8, 9>>}

ProviderMsg == "boom"

CallbackMsg == "callback failed"

OutputPaths == {NoneVal, "out.wav"}

PROCESSING == 0

COMPLETED == 1

ERROR == 0 - 1

\* the dataclass TTSResult(type, message=None, audio=b'', process=0)
TTSResult(type, message, audio, process) ==
  [type |-> type, message |-> message, audio |-> audio, process |-> process]

\* TTSResult(0, audio=chunk, process=0)
processing_result(chunk) == TTSResult(PROCESSING, NoneVal, chunk, 0)

completed_result_last_chunk(audio) ==
  TTSResult(COMPLETED, NoneVal, IF audio = <<>> THEN <<>> ELSE <<audio[Len(audio)]>>, 0)

\* TTSResult(1, audio=self.audio)
completed_result(audio) == TTSResult(COMPLETED, NoneVal, audio, 0)

error_result_no_message(msg) == TTSResult(ERROR, NoneVal, <<>>, 0)

\* TTSResult(-1, message=error_msg)
error_result(msg) == TTSResult(ERROR, msg, <<>>, 0)

NoOutcome == [kind |-> "none", exc |-> "", msg |-> "", value |-> <<>>]

Returned(value) == [kind |-> "return", exc |-> "", msg |-> "", value |-> value]

Raised(exc, msg) == [kind |-> "raise", exc |-> exc, msg |-> msg, value |-> <<>>]

\* TTSClient.__init__ with a provider given: self.audio = b''
TTSClient(content, spk_id, callback) ==
  [content |-> content, spk_id |-> spk_id, callback |-> callback, audio |-> <<>>]

Idle == pc \in {"idle", "returned", "raised"}

\* the caller calls client.start() or client.convert(path)
begin_call(method, path) ==
  /\ Idle
  /\ calls < MaxCalls
  /\ calls' = calls + 1
  /\ entry' = method
  /\ output_path' = path
  /\ pc' = "loop"
  /\ yielded' = <<>>
  /\ events' = <<>>
  /\ cause' = ""
  /\ error_msg' = ""
  /\ outcome' = NoOutcome
  /\ UNCHANGED <<client, files, registryVars, backendVars>>

call_start == begin_call("start", NoneVal)

call_convert(path) == begin_call("convert", path)

\* one pass of the for loop: the provider yields chunk, the callback (if set)
\* returns
loop_chunk(chunk) ==
  /\ pc = "loop"
  /\ Len(yielded) < MaxChunks
  /\ yielded' = Append(yielded, chunk)
  /\ client' = [client EXCEPT !.audio = @ \o chunk]
  /\ events' = IF client.callback THEN Append(events, processing_result(chunk))
               ELSE events
  /\ UNCHANGED <<pc, entry, output_path, error_msg, outcome, files, calls, cause,
                 registryVars, backendVars>>

\* one pass of the for loop in which the callback raises
loop_chunk_callback_raises(chunk) ==
  /\ pc = "loop"
  /\ Len(yielded) < MaxChunks
  /\ client.callback
  /\ yielded' = Append(yielded, chunk)
  /\ client' = [client EXCEPT !.audio = @ \o chunk]
  /\ events' = Append(events, processing_result(chunk))
  /\ pc' = "except"
  /\ error_msg' = CallbackMsg
  /\ cause' = "callback"
  /\ UNCHANGED <<entry, output_path, outcome, files, calls, registryVars, backendVars>>

\* the provider's generator raises in place of yielding
loop_provider_raises ==
  /\ pc = "loop"
  /\ pc' = "except"
  /\ error_msg' = ProviderMsg
  /\ cause' = "provider"
  /\ UNCHANGED <<client, entry, output_path, outcome, files, calls, yielded, events,
                 registryVars, backendVars>>

\* the generator is exhausted: the COMPLETED callback (if set) returns, and
\* start() returns self.audio
loop_exhausted ==
  /\ pc = "loop"
  /\ events' = IF client.callback THEN Append(events, completed_result(client.audio))
               ELSE events
  /\ outcome' = Returned(client.audio)
  /\ pc' = IF entry = "convert" THEN "save" ELSE "returned"
  /\ UNCHANGED <<client, entry, output_path, error_msg, files, calls, yielded, cause,
                 registryVars, backendVars>>

\* the generator is exhausted and the COMPLETED callback raises
loop_exhausted_callback_raises ==
  /\ pc = "loop"
  /\ client.callback
  /\ events' = Append(events, completed_result(client.audio))
  /\ pc' = "except"
  /\ error_msg' = CallbackMsg
  /\ cause' = "callback"
  /\ UNCHANGED <<client, entry, output_path, outcome, files, calls, yielded,
                 registryVars, backendVars>>

\* except Exception as e: the ERROR callback (if set) returns, and
\* TTSError(error_msg) is raised
except_handler ==
  /\ pc = "except"
  /\ events' = IF client.callback THEN Append(events, error_result(error_msg))
               ELSE events
  /\ outcome' = Raised("TTSError", error_msg)
  /\ pc' = "raised"
  /\ UNCHANGED <<client, entry, output_path, error_msg, files, calls, yielded, cause,
                 registryVars, backendVars>>

\* except Exception as e: the ERROR callback raises, inside the except block
except_handler_callback_raises ==
  /\ pc = "except"
  /\ client.callback
  /\ events' = Append(events, error_result(error_msg))
  /\ outcome' = Raised("Exception", CallbackMsg)
  /\ pc' = "raised"
  /\ UNCHANGED <<client, entry, output_path, error_msg, files, calls, yielded, cause,
                 registryVars, backendVars>>

\* open(output_path, 'wb').write(audio_data): the file is made or replaced
write_file(fs, path, data) ==
  SelectSeq(fs, LAMBDA f : f.path # path) \o <<[path |-> path, data |-> data]>>

\* convert after start() returned: save_audio_file(audio, output_path) if a
\* path was given
convert_save ==
  /\ pc = "save"
  /\ files' = IF output_path # NoneVal
              THEN write_file(files, output_path, outcome.value)
              ELSE files
  /\ pc' = "returned"
  /\ UNCHANGED <<client, entry, output_path, error_msg, outcome, calls, yielded,
                 events, cause, registryVars, backendVars>>

\* convert after start() returned: save_audio_file raises (the directory
\* cannot be made, the file cannot be written)
convert_save_fails ==
  /\ pc = "save"
  /\ output_path # NoneVal
  /\ outcome' = Raised("OSError", "cannot write")
  /\ pc' = "raised"
  /\ UNCHANGED <<client, entry, output_path, error_msg, files, calls, yielded,
                 events, cause, registryVars, backendVars>>

(***************************************************************************)
(* LocalTTSProvider (providers/local/provider.py).  The engine is the      *)
(* pyttsx3 engine handle the provider holds; an engine voice has an id, a  *)
(* name and a printed form.                                                *)
(***************************************************************************)
\* sub in s
Contains(s, sub) ==
  \/ Len(sub) = 0
  \/ \E i \in 1..(Len(s) - Len(sub) + 1) : SubSeq(s, i, i + Len(sub) - 1) = sub

\* the voice lists an engine may report
EngineVoiceLists ==
  { <<>>,
    <<[id |-> "zh_a", name |-> "Ting", str |-> "female"],
      [id |-> "en_b", name |-> "Sam", str |-> "voice"]>>,
    <<[id |-> "en_b", name |-> "Sam", str |-> "voice"],
      [id |-> "zh_a", name |-> "Ting", str |-> "female"]>>,
    <<[id |-> "m1_en", name |-> "English", str |-> "voice"],
      [id |-> "m1", name |-> "Mandarin", str |-> "Female"]>> }

DefaultLanguages == {"zh", "en"}

\* LocalTTSProvider._detect_language
detect_language(voice_id, voice_name) ==
  LET combined == lower(voice_id \o " " \o voice_name)
  IN  IF \E kw \in {"zh", "chinese", "mandarin", "cantonese"} : Contains(combined, kw)
      THEN "zh"
      ELSE IF \E kw \in {"en", "english", "us", "uk", "gb"} : Contains(combined, kw)
      THEN "en"
      ELSE "zh"

\* the VoiceInfo LocalTTSProvider.list_voices builds for one engine voice
local_voice_info(voice) ==
  VoiceInfo(voice.id, voice.name, "local",
            detect_language(voice.id, voice.name),
            IF Contains(lower(voice.str), "female") THEN "female" ELSE "male")

\* no failure is injected
NoFailure == 0 - 1

\* LocalTTSProvider.list_voices.  fail_at says where the engine fails: 0 in
\* getProperty('voices'), i while the i-th voice is read, NoFailure nowhere.
\* The voices appended before the failure are what `return voices` returns.
local_list_voices(engine_voices, fail_at) ==
  LET n == IF fail_at = 0 THEN 0
           ELSE IF fail_at \in 1..Len(engine_voices) THEN fail_at - 1
           ELSE Len(engine_voices)
  IN  [raised |-> FALSE,
       voices |-> [i \in 1..n |-> local_voice_info(engine_voices[i])]]

\* TTSProvider.find_voice_by_hash_id over a list of VoiceInfo values: <<>> for
\* None, <<voice_info>> for the first match
RECURSIVE find_in_listed(_, _, _)
find_in_listed(listed, hash_id, k) ==
  IF k > Len(listed) THEN <<>>
  ELSE IF lower(listed[k].hash_id) = lower(hash_id) THEN <<listed[k]>>
  ELSE find_in_listed(listed, hash_id, k + 1)

\* for voice in voices: if id.lower() in voice.id.lower(): selected = voice; break
RECURSIVE first_engine_voice_containing(_, _, _)
first_engine_voice_containing(voices, id, k) ==
  IF k > Len(voices) THEN <<>>
  ELSE IF Contains(lower(voices[k].id), lower(id)) THEN <<voices[k]>>
  ELSE first_engine_voice_containing(voices, id, k + 1)

\* the loop over voice_infos: the first default-language VoiceInfo that maps
\* to an engine voice decides
RECURSIVE default_language_voice(_, _, _, _)
default_language_voice(voices, voice_infos, default_language, k) ==
  IF k > Len(voice_infos) THEN <<>>
  ELSE LET vi  == voice_infos[k]
           hit == IF lower(vi.language) = lower(default_language)
                  THEN first_engine_voice_containing(voices, vi.id, 1)
                  ELSE <<>>
       IN  IF hit # <<>> THEN hit
           ELSE default_language_voice(voices, voice_infos, default_language, k + 1)

\* LocalTTSProvider.synthesize, lines 63-96: the voice id passed to
\* engine.setProperty('voice', ...), or NoneVal when setProperty is not called
local_select_voice(voices, default_language, spk_id) ==
  IF voices = <<>> THEN NoneVal
  ELSE LET listed     == local_list_voices(voices, NoFailure).voices
           voice_info == IF spk_id # "" /\ spk_id # "default"
                         THEN find_in_listed(listed, spk_id, 1)
                         ELSE <<>>
           by_hash    == IF voice_info # <<>>
                         THEN first_engine_voice_containing(voices, voice_info[1].id, 1)
                         ELSE <<>>
           selected   == IF by_hash # <<>> THEN by_hash
                         ELSE default_language_voice(voices, listed, default_language, 1)
       IN  IF selected # <<>> THEN selected[1].id ELSE voices[1].id

(***************************************************************************)
(* EdgeTTSProvider (providers/edge/provider.py)                            *)
(***************************************************************************)
DEFAULT_VOICE == "zh-CN-XiaoxiaoNeural"

\* EdgeTTSProvider.list_voices, by value
edge_list_voices ==
  [i \in 1..Len(PRESET_VOICES) |->
     LET v == PRESET_VOICES[i]
     IN  VoiceInfo(v.id, v.name, "edge", v.language, v.gender)]

\* the loop over PRESET_VOICES matching names and ids by substring
RECURSIVE edge_fuzzy_match(_, _)
edge_fuzzy_match(spk_id, k) ==
  IF k > Len(PRESET_VOICES) THEN <<>>
  ELSE IF \/ Contains(lower(PRESET_VOICES[k].name), lower(spk_id))
          \/ Contains(lower(PRESET_VOICES[k].id), lower(spk_id))
  THEN <<PRESET_VOICES[k].id>>
  ELSE edge_fuzzy_match(spk_id, k + 1)

\* EdgeTTSProvider._resolve_voice
resolve_voice(spk_id, default_voice) ==
  IF spk_id = "" \/ spk_id = NoneVal \/ spk_id = "default" THEN default_voice
  ELSE IF Contains(spk_id, "-") /\ Contains(spk_id, "Neural") THEN spk_id
  ELSE LET voice_info == find_in_listed(edge_list_voices, spk_id, 1)
           fuzzy      == edge_fuzzy_match(spk_id, 1)
       IN  IF voice_info # <<>> THEN voice_info[1].id
           ELSE IF fuzzy # <<>> THEN fuzzy[1]
           ELSE default_voice

(***************************************************************************)
(* StreamTTSProvider.  The repository has two: the class of the package    *)
(* providers/stream/provider.py ("stream_pkg"), which lists voices from    *)
(* the service and resolves hash ids, and the class of the module          *)
(* providers/stream.py ("stream_mod"), which inherits list_voices and      *)
(* sends spk_id as given.                                                  *)
(***************************************************************************)
StreamVariants == {"stream_pkg", "stream_mod"}

\* the items the /voices endpoint can return: dicts in which a key may be
\* absent (NoneVal)
VoiceItems ==
  <<[id |-> "xiaoyan", spk_id |-> NoneVal, name |-> "Yan", title |-> NoneVal, language |-> "zh"],
    [id |-> NoneVal, spk_id |-> "s2", name |-> NoneVal, title |-> "Two", language |-> NoneVal],
    [id |-> "xiaoyan", spk_id |-> NoneVal, name |-> "Again", title |-> NoneVal, language |-> "zh"]>>

\* how GET <base>/voices can answer: a request error, a non-2xx status, a
\* body that is not JSON, or a JSON list whose bad_at-th item is not a dict
VoicesAnswers ==
  {[kind |-> k, items |-> <<>>, bad_at |-> NoFailure] : k \in {"error", "status", "malformed"}}
    \cup {[kind |-> "ok", items |-> VoiceItems, bad_at |-> b] : b \in {NoFailure, 1, 3}}
    \cup {[kind |-> "ok", items |-> <<>>, bad_at |-> NoFailure]}

\* item.get(key, default)
item_get(value, default) == IF value = NoneVal THEN default ELSE value

stream_voice_info(item) ==
  VoiceInfo(item_get(item.id, item_get(item.spk_id, "")),
            item_get(item.name, item_get(item.title, "")),
            "stream", item_get(item.language, "zh"), "")

\* StreamTTSProvider.list_voices of providers/stream/provider.py
stream_list_voices(answer) ==
  IF answer.kind # "ok" \/ answer.bad_at \in DOMAIN answer.items
  THEN [raised |-> FALSE, voices |-> <<>>]
  ELSE [raised |-> FALSE,
        voices |-> [i \in DOMAIN answer.items |-> stream_voice_info(answer.items[i])]]

\* list_voices of a provider variant: providers/stream.py inherits
\* TTSProvider.list_voices, which returns []
variant_list_voices(variant, answer) ==
  IF variant = "stream_pkg" THEN stream_list_voices(answer)
  ELSE [raised |-> FALSE, voices |-> <<>>]

\* the spk_id form field with the hash lookup left out
stream_original_id_verbatim(variant, answer, spk_id) ==
  [raised |-> FALSE, id |-> spk_id]

\* the first lines of synthesize: the spk_id form field, or the exception of
\* find_voice_by_hash_id
stream_original_id(variant, answer, spk_id) ==
  IF variant = "stream_mod" THEN [raised |-> FALSE, id |-> spk_id]
  ELSE LET lv == variant_list_voices(variant, answer)
           voice_info == find_in_listed(lv.voices, spk_id, 1)
       IN  IF lv.raised THEN [raised |-> TRUE, id |-> NoneVal]
           ELSE [raised |-> FALSE,
                 id |-> IF voice_info # <<>> THEN voice_info[1].id ELSE spk_id]

(***************************************************************************)
(* Provider calls.  Each thread runs at most one provider call at a time;  *)
(* synthesize is a generator, and its body runs in steps.  A temporary     *)
(* file is named by the thread and the number of the call that made it.    *)
(***************************************************************************)
Threads == {1, 2}

MaxProviderCalls == 1

BackendHashContents ==
  {"local:zh_a:zh", "local:en_b:en", "local:m1_en:en", "local:m1:zh",
   "stream:xiaoyan:zh", "stream:s2:zh"}

IdleCall ==
  [op |-> "idle", provider |-> "", pc |-> "idle", text |-> "", spk_id |-> "",
   voice |-> NoneVal, tmp_path |-> <<>>, audio |-> <<>>, out |-> <<>>,
   exc |-> "", listed |-> <<>>, failed |-> FALSE, n |-> 0]

CanCall(t) ==
  /\ thread_call[t].pc \in {"idle", "done", "raised"}
  /\ thread_call[t].n < MaxProviderCalls

\* the first next() on provider.synthesize(text, spk_id)
begin_synthesize(t, provider, text, spk_id, pc0) ==
  /\ CanCall(t)
  /\ thread_call' = [thread_call EXCEPT ![t] =
                [IdleCall EXCEPT !.op = "synthesize", !.provider = provider,
                                 !.pc = pc0, !.text = text, !.spk_id = spk_id,
                                 !.n = thread_call[t].n + 1]]

At(t, provider, pc0) == thread_call[t].provider = provider /\ thread_call[t].pc = pc0

remove_file(fs, path) == [p \in DOMAIN fs \ {path} |-> fs[p]]

\* the spk_id arguments tried on a LocalTTSProvider: "default", a string
\* matching nothing, and the hash ids and native ids of the engine's voices
LocalSpkIds ==
  LET listed == local_list_voices(engine.voices, NoFailure).voices
  IN  {"default", "nomatch"}
        \cup {listed[i].hash_id : i \in DOMAIN listed}
        \cup {upper(listed[i].hash_id) : i \in DOMAIN listed \cap {1}}
        \cup {listed[i].id : i \in DOMAIN listed}

local_synthesize(t, text, spk_id) ==
  /\ begin_synthesize(t, "local", text, spk_id, "select")
  /\ UNCHANGED <<engine, tmpfs, http, agg, registryVars, clientVars>>

\* lines 63-96: getProperty('voices'), the choice of the voice, setProperty
local_select(t) ==
  /\ At(t, "local", "select")
  /\ LET voice_id == local_select_voice(engine.voices, engine.default_language,
                                        thread_call[t].spk_id)
     IN  /\ engine' = IF voice_id # NoneVal THEN [engine EXCEPT !.voice = voice_id]
                      ELSE engine
         /\ thread_call' = [thread_call EXCEPT ![t].voice = voice_id, ![t].pc = "mktemp"]
  /\ UNCHANGED <<tmpfs, http, agg, registryVars, clientVars>>

\* lines 99-100: tempfile.NamedTemporaryFile(suffix='.wav', delete=False)
local_mktemp(t) ==
  /\ At(t, "local", "mktemp")
  /\ LET path == <<t, thread_call[t].n>>
     IN  /\ tmpfs' = (path :> <<>>) @@ tmpfs
         /\ thread_call' = [thread_call EXCEPT ![t].tmp_path = path, ![t].pc = "save_to_file"]
  /\ UNCHANGED <<engine, http, agg, registryVars, clientVars>>

\* line 103: engine.save_to_file(text, tmp_path) queues the command
local_save_to_file(t) ==
  /\ At(t, "local", "save_to_file")
  /\ engine' = [engine EXCEPT !.queue =
                  Append(@, [text |-> thread_call[t].text, path |-> thread_call[t].tmp_path])]
  /\ thread_call' = [thread_call EXCEPT ![t].pc = "runAndWait"]
  /\ UNCHANGED <<tmpfs, http, agg, registryVars, clientVars>>

\* line 104: engine.runAndWait() speaks what is queued, with the voice the
\* engine has now, into the files named
local_runAndWait(t) ==
  /\ At(t, "local", "runAndWait")
  /\ LET written == {engine.queue[i].path : i \in DOMAIN engine.queue}
         job(p)  == CHOOSE c \in Range(engine.queue) : c.path = p
     IN  tmpfs' = [p \in DOMAIN tmpfs \cup written |->
                     IF p \in written
                     THEN <<[voice |-> engine.voice, text |-> job(p).text]>>
                     ELSE tmpfs[p]]
  /\ engine' = [engine EXCEPT !.queue = <<>>]
  /\ thread_call' = [thread_call EXCEPT ![t].pc = "read"]
  /\ UNCHANGED <<http, agg, registryVars, clientVars>>

\* the engine raises in save_to_file or runAndWait: lines 116-118 log and
\* re-raise
local_engine_raises(t) ==
  /\ thread_call[t].provider = "local"
  /\ thread_call[t].pc \in {"save_to_file", "runAndWait"}
  /\ thread_call' = [thread_call EXCEPT ![t].pc = "raised", ![t].exc = "RuntimeError"]
  /\ UNCHANGED <<engine, tmpfs, http, agg, registryVars, clientVars>>

\* lines 107-108: the file is read back
local_read(t) ==
  /\ At(t, "local", "read")
  /\ thread_call' = [thread_call EXCEPT ![t].audio = tmpfs[thread_call[t].tmp_path], ![t].pc = "unlink"]
  /\ UNCHANGED <<engine, tmpfs, http, agg, registryVars, clientVars>>

\* open() or read() raises: lines 116-118 log and re-raise
local_read_raises(t) ==
  /\ At(t, "local", "read")
  /\ thread_call' = [thread_call EXCEPT ![t].pc = "raised", ![t].exc = "OSError"]
  /\ UNCHANGED <<engine, tmpfs, http, agg, registryVars, clientVars>>

\* lines 111-114: os.unlink(tmp_path); yield audio_data
local_unlink(t) ==
  /\ At(t, "local", "unlink")
  /\ tmpfs' = remove_file(tmpfs, thread_call[t].tmp_path)
  /\ thread_call' = [thread_call EXCEPT ![t].out = <<thread_call[t].audio>>, ![t].pc = "done"]
  /\ UNCHANGED <<engine, http, agg, registryVars, clientVars>>

\* provider.list_voices() on the LocalTTSProvider, the engine failing at fail_at
local_list_voices_call(t, fail_at) ==
  /\ CanCall(t)
  /\ LET lv == local_list_voices(engine.voices, fail_at)
     IN  thread_call' = [thread_call EXCEPT ![t] =
                    [IdleCall EXCEPT !.op = "list_voices", !.provider = "local",
                                     !.pc = "done", !.n = thread_call[t].n + 1,
                                     !.exc = IF lv.raised THEN "Exception" ELSE "",
                                     !.listed = lv.voices,
                                     !.failed = fail_at \in 0..Len(engine.voices)]]
  /\ UNCHANGED <<engine, tmpfs, http, agg, registryVars, clientVars>>

(***************************************************************************)
(* EdgeTTSProvider.synthesize and _synthesize_async                        *)
(***************************************************************************)
EdgeSpkIds ==
  {"default", "", "nomatch", "jenny", PRESET_VOICES[1].id,
   lower(PRESET_VOICES[2].id), edge_list_voices[2].hash_id,
   upper(edge_list_voices[2].hash_id)}

\* the first next() on EdgeTTSProvider.synthesize
edge_synthesize(t, text, spk_id) ==
  /\ begin_synthesize(t, "edge", text, spk_id, "resolve")
  /\ UNCHANGED <<engine, tmpfs, http, agg, registryVars, clientVars>>

\* line 91: voice = self._resolve_voice(spk_id)
edge_resolve(t) ==
  /\ At(t, "edge", "resolve")
  /\ thread_call' = [thread_call EXCEPT ![t].voice = resolve_voice(thread_call[t].spk_id, DEFAULT_VOICE),
                          ![t].pc = "mktemp"]
  /\ UNCHANGED <<engine, tmpfs, http, agg, registryVars, clientVars>>

\* lines 107-108: tempfile.NamedTemporaryFile(suffix='.mp3', delete=False)
edge_mktemp(t) ==
  /\ At(t, "edge", "mktemp")
  /\ LET path == <<t, thread_call[t].n>>
     IN  /\ tmpfs' = (path :> <<>>) @@ tmpfs
         /\ thread_call' = [thread_call EXCEPT ![t].tmp_path = path, ![t].pc = "save"]
  /\ UNCHANGED <<engine, http, agg, registryVars, clientVars>>

\* line 111: communicate.save(tmp_path)
edge_save(t) ==
  /\ At(t, "edge", "save")
  /\ tmpfs' = [tmpfs EXCEPT ![thread_call[t].tmp_path] =
                 <<[voice |-> thread_call[t].voice, text |-> thread_call[t].text]>>]
  /\ thread_call' = [thread_call EXCEPT ![t].pc = "read"]
  /\ UNCHANGED <<engine, http, agg, registryVars, clientVars>>

\* communicate.save raises (no network, unknown voice)
edge_save_raises(t) ==
  /\ At(t, "edge", "save")
  /\ thread_call' = [thread_call EXCEPT ![t].pc = "finally", ![t].exc = "Exception"]
  /\ UNCHANGED <<engine, tmpfs, http, agg, registryVars, clientVars>>

\* lines 113-114
edge_read(t) ==
  /\ At(t, "edge", "read")
  /\ thread_call' = [thread_call EXCEPT ![t].audio = tmpfs[thread_call[t].tmp_path], ![t].pc = "finally"]
  /\ UNCHANGED <<engine, tmpfs, http, agg, registryVars, clientVars>>

edge_read_raises(t) ==
  /\ At(t, "edge", "read")
  /\ thread_call' = [thread_call EXCEPT ![t].pc = "finally", ![t].exc = "OSError"]
  /\ UNCHANGED <<engine, tmpfs, http, agg, registryVars, clientVars>>

\* lines 115-117, then line 100 (yield audio_data) or the exception
edge_finally(t) ==
  /\ At(t, "edge", "finally")
  /\ tmpfs' = IF thread_call[t].tmp_path \in DOMAIN tmpfs
              THEN remove_file(tmpfs, thread_call[t].tmp_path)
              ELSE tmpfs
  /\ thread_call' = IF thread_call[t].exc = ""
             THEN [thread_call EXCEPT ![t].out = <<thread_call[t].audio>>, ![t].pc = "done"]
             ELSE [thread_call EXCEPT ![t].pc = "raised"]
  /\ UNCHANGED <<engine, http, agg, registryVars, clientVars>>

(***************************************************************************)
(* StreamTTSProvider.synthesize and list_voices                            *)
(***************************************************************************)
StreamSpkIds ==
  LET listed == stream_list_voices([kind |-> "ok", items |-> VoiceItems,
                                    bad_at |-> NoFailure]).voices
  IN  {"default", "nomatch", listed[1].id, listed[1].hash_id,
       upper(listed[1].hash_id), listed[2].hash_id}

\* the response bodies of POST: sequences of chunks, some of them empty
ResponseBodies == {<<>>, <<<<1>>, <<>>, <<2, 3>>>>}

stream_synthesize(t, variant, text, spk_id) ==
  /\ begin_synthesize(t, variant, text, spk_id, "resolve")
  /\ UNCHANGED <<engine, tmpfs, http, agg, registryVars, clientVars>>

\* find_voice_by_hash_id(spk_id), the service answering GET /voices with
\* `answer`, then the form data
stream_resolve(t, answer) ==
  /\ thread_call[t].provider \in StreamVariants
  /\ thread_call[t].pc = "resolve"
  /\ LET r == stream_original_id(thread_call[t].provider, answer, thread_call[t].spk_id)
         lv == variant_list_voices(thread_call[t].provider, answer)
     IN  thread_call' = IF r.raised
                 THEN [thread_call EXCEPT ![t].pc = "raised", ![t].exc = "list_voices",
                                   ![t].listed = lv.voices]
                 ELSE [thread_call EXCEPT ![t].pc = "post", ![t].voice = r.id,
                                   ![t].listed = lv.voices]
  /\ UNCHANGED <<engine, tmpfs, http, agg, registryVars, clientVars>>

\* requests.post(self.url, data=data, stream=True); raise_for_status()
stream_post(t, ok, body) ==
  /\ thread_call[t].provider \in StreamVariants
  /\ thread_call[t].pc = "post"
  /\ http' = [http EXCEPT !.posts =
                Append(@, [text |-> thread_call[t].text, spk_id |-> thread_call[t].voice,
                           given |-> thread_call[t].spk_id, listed |-> thread_call[t].listed])]
  /\ thread_call' = IF ok
             THEN [thread_call EXCEPT ![t].pc = "iter_content", ![t].audio = body]
             ELSE [thread_call EXCEPT ![t].pc = "raised", ![t].exc = "HTTPError"]
  /\ UNCHANGED <<engine, tmpfs, agg, registryVars, clientVars>>

\* one pass of `for chunk in response.iter_content(...)`: an empty chunk is
\* not yielded; the generator ends with the body
stream_iter_content(t) ==
  /\ thread_call[t].provider \in StreamVariants
  /\ thread_call[t].pc = "iter_content"
  /\ thread_call' = IF thread_call[t].audio = <<>>
             THEN [thread_call EXCEPT ![t].pc = "done"]
             ELSE [thread_call EXCEPT
                     ![t].audio = Tail(@),
                     ![t].out = IF Head(thread_call[t].audio) # <<>>
                                THEN Append(@, Head(thread_call[t].audio))
                                ELSE @]
  /\ UNCHANGED <<engine, tmpfs, http, agg, registryVars, clientVars>>

\* provider.list_voices() on a StreamTTSProvider
stream_list_voices_call(t, variant, answer) ==
  /\ CanCall(t)
  /\ LET lv == variant_list_voices(variant, answer)
     IN  thread_call' = [thread_call EXCEPT ![t] =
                    [IdleCall EXCEPT !.op = "list_voices", !.provider = variant,
                                     !.pc = "done", !.n = thread_call[t].n + 1,
                                     !.exc = IF lv.raised THEN "Exception" ELSE "",
                                     !.listed = lv.voices,
                                     !.failed = \/ answer.kind # "ok"
                                                \/ answer.bad_at \in DOMAIN answer.items]]
  /\ UNCHANGED <<engine, tmpfs, http, agg, registryVars, clientVars>>

(***************************************************************************)
(* ProviderRegistry.list_all_voices step by step, with register and        *)
(* unregister called from another thread while it runs.  The for loop      *)
(* holds an iterator over self._providers.items(): it remembers the size   *)
(* of the dict when it was made and its position in the dict's entries     *)
(* (`slots`: the keys in insertion order, a deleted key leaving a hole),   *)
(* and raises RuntimeError at the next item if the size has changed.       *)
(***************************************************************************)
MaxMutations == 2

Hole == ""

IdleAgg ==
  [pc |-> "idle", pos |-> 0, used |-> 0, slots |-> <<>>, name |-> "",
   provider |-> "", voices |-> <<>>, exc |-> "", during |-> {}, muts |-> 0]

Running == agg.pc \in {"next", "list_voices"}

\* voices = []; iter(self._providers.items())
agg_call ==
  /\ agg.pc = "idle"
  /\ agg' = [IdleAgg EXCEPT
               !.pc = "next",
               !.used = Len(providers),
               !.slots = list_providers,
               !.during = {<<providers[i].name, providers[i].provider>> :
                             i \in DOMAIN providers}]
  /\ UNCHANGED <<engine, tmpfs, thread_call, http, registryVars, clientVars>>

\* the for statement asks the iterator for its next item
agg_next ==
  /\ agg.pc = "next"
  /\ LET live == {k \in DOMAIN agg.slots : k > agg.pos /\ agg.slots[k] # Hole}
         k    == CHOOSE i \in live : \A j \in live : i <= j
     IN  agg' = IF Len(providers) # agg.used
                THEN [agg EXCEPT !.pc = "raised", !.exc = "RuntimeError"]
                ELSE IF live = {}
                THEN [agg EXCEPT !.pc = "returned"]
                ELSE [agg EXCEPT !.pc = "list_voices", !.pos = k,
                                 !.name = agg.slots[k],
                                 !.provider = get(agg.slots[k])]
  /\ UNCHANGED <<engine, tmpfs, thread_call, http, registryVars, clientVars>>

\* the body of the loop: provider.list_voices() returns and its voices are
\* stamped and appended, or it raises and the except clause logs
agg_list_voices ==
  /\ agg.pc = "list_voices"
  /\ LET lv == provider_list_voices(agg.provider, cached_objects(heap), agg.name)
     IN  agg' = [agg EXCEPT
                   !.pc = "next",
                   !.voices = IF lv.raised THEN @
                              ELSE @ \o [i \in DOMAIN lv.refs |->
                                           [provider |-> agg.name,
                                            id |-> lv.heap[lv.refs[i]].id,
                                            from |-> agg.provider]]]
  /\ UNCHANGED <<engine, tmpfs, thread_call, http, registryVars, clientVars>>

\* another thread calls register(name, provider) while the call runs
concurrent_register(name, provider) ==
  /\ Running
  /\ agg.muts < MaxMutations
  /\ providers' = dict_setitem(providers, name, provider)
  /\ lastOp' = [lastOp EXCEPT ![name] = [op |-> "register", provider |-> provider]]
  /\ agg' = [agg EXCEPT
               !.slots = IF HasKey(providers, name) THEN @ ELSE Append(@, name),
               !.during = @ \cup {<<name, provider>>},
               !.muts = @ + 1]
  /\ UNCHANGED <<md5_memo, heap, ret, engine, tmpfs, thread_call, http, clientVars>>

\* another thread calls unregister(name) while the call runs
concurrent_unregister(name) ==
  /\ Running
  /\ agg.muts < MaxMutations
  /\ providers' = IF HasKey(providers, name) THEN dict_delitem(providers, name)
                  ELSE providers
  /\ lastOp' = [lastOp EXCEPT ![name] = [op |-> "unregister", provider |-> NoneVal]]
  /\ agg' = [agg EXCEPT
               !.slots = [k \in DOMAIN @ |-> IF @[k] = name THEN Hole ELSE @[k]],
               !.muts = @ + 1]
  /\ UNCHANGED <<md5_memo, heap, ret, engine, tmpfs, thread_call, http, clientVars>>

RegistryInit ==
  /\ md5_memo = [c \in HashContents \cup BackendHashContents |-> md5_hexdigest(encode_utf8(c))]
  /\ providers = <<>>
  /\ heap = [r \in CachedRefs |->
               LET v == CustomVoices[r[3]]
               IN  VoiceInfo(v.id, v.name, "custom", v.language, v.gender)]
  /\ ret = NoRet("init")
  /\ lastOp = [n \in Names |-> [op |-> "none", provider |-> NoneVal]]

\* a client constructed with a provider, with or without a callback
ClientConstructed ==
  /\ \E callback \in BOOLEAN : client = TTSClient("hello", "xiaoyan", callback)
  /\ pc = "idle"
  /\ entry = ""
  /\ output_path = NoneVal
  /\ error_msg = ""
  /\ outcome = NoOutcome
  /\ files = <<>>
  /\ calls = 0
  /\ yielded = <<>>
  /\ events = <<>>
  /\ cause = ""

\* no client call is made
NoClient ==
  /\ client = TTSClient("hello", "xiaoyan", FALSE)
  /\ pc = "idle"
  /\ entry = ""
  /\ output_path = NoneVal
  /\ error_msg = ""
  /\ outcome = NoOutcome
  /\ files = <<>>
  /\ calls = 0
  /\ yielded = <<>>
  /\ events = <<>>
  /\ cause = ""

\* no provider call is made outside the registry and the client
NoBackend ==
  /\ engine = [voices |-> <<>>, default_language |-> "zh", voice |-> NoneVal,
               queue |-> <<>>]
  /\ tmpfs = <<>>
  /\ thread_call = [t \in Threads |-> IdleCall]
  /\ http = [posts |-> <<>>]
  /\ agg = IdleAgg

\* the registry of a process in which no client call is made
Init == RegistryInit /\ NoClient /\ NoBackend

ClientInit == RegistryInit /\ ClientConstructed /\ NoBackend

ClientNext ==
  \/ call_start
  \/ \E path \in OutputPaths : call_convert(path)
  \/ \E chunk \in ChunkValues : loop_chunk(chunk)
  \/ \E chunk \in ChunkValues : loop_chunk_callback_raises(chunk)
  \/ loop_provider_raises
  \/ loop_exhausted
  \/ loop_exhausted_callback_raises
  \/ except_handler
  \/ except_handler_callback_raises
  \/ convert_save
  \/ convert_save_fails

ClientSpec == ClientInit /\ [][ClientNext]_vars

Next ==
  \/ \E name \in Names, p \in ProviderIds : register(name, p)
  \/ \E name \in Names : unregister(name)
  \/ list_all_voices
  \/ \E p \in ProviderIds : list_voices(p)
  \/ \E name \in NameArgs : synthesize("hello", "default", name)

Spec == Init /\ [][Next]_vars

\* hash_id lookups on the provider objects, between aggregations over K: K is
\* the only provider whose VoiceInfo objects outlive a call, so only its
\* registrations change what a lookup reads
FindNext ==
  \/ \E name \in Names : register(name, "K")
  \/ list_all_voices
  \/ \E p \in ProviderIds : \E h \in HashArgs : find_voice_by_hash_id(p, h)

FindSpec == Init /\ [][FindNext]_vars

(***************************************************************************)
(* Provider calls made one at a time, on a LocalTTSProvider, an            *)
(* EdgeTTSProvider and a StreamTTSProvider                                 *)
(***************************************************************************)
ProviderInit ==
  /\ RegistryInit
  /\ NoClient
  /\ \E voices \in EngineVoiceLists, default_language \in DefaultLanguages :
       engine = [voices |-> voices, default_language |-> default_language,
                 voice |-> NoneVal, queue |-> <<>>]
  /\ tmpfs = <<>>
  /\ thread_call = [t \in Threads |-> IdleCall]
  /\ http = [posts |-> <<>>]
  /\ agg = IdleAgg

StreamNext ==
  \/ \E variant \in StreamVariants, spk_id \in StreamSpkIds :
       stream_synthesize(1, variant, "hello", spk_id)
  \/ \E answer \in VoicesAnswers : stream_resolve(1, answer)
  \/ \E ok \in BOOLEAN, body \in ResponseBodies : stream_post(1, ok, body)
  \/ stream_iter_content(1)
  \/ \E variant \in StreamVariants, answer \in VoicesAnswers :
       stream_list_voices_call(1, variant, answer)

StreamSpec == Init /\ [][StreamNext]_vars

ProviderNext ==
  \/ \E spk_id \in LocalSpkIds : local_synthesize(1, "hello", spk_id)
  \/ local_select(1)
  \/ local_mktemp(1)
  \/ local_save_to_file(1)
  \/ local_runAndWait(1)
  \/ local_engine_raises(1)
  \/ local_read(1)
  \/ local_read_raises(1)
  \/ local_unlink(1)
  \/ \E fail_at \in {NoFailure, 0, 1, 2} : local_list_voices_call(1, fail_at)
  \/ \E spk_id \in EdgeSpkIds : edge_synthesize(1, "hello", spk_id)
  \/ edge_resolve(1)
  \/ edge_mktemp(1)
  \/ edge_save(1)
  \/ edge_save_raises(1)
  \/ edge_read(1)
  \/ edge_read_raises(1)
  \/ edge_finally(1)
  \/ StreamNext

ProviderSpec == ProviderInit /\ [][ProviderNext]_vars

(***************************************************************************)
(* Two threads calling synthesize on the same LocalTTSProvider             *)
(***************************************************************************)
ConcurrentNext ==
  \/ \E t \in Threads, spk_id \in LocalSpkIds : local_synthesize(t, "hello", spk_id)
  \/ \E t \in Threads : local_select(t)
  \/ \E t \in Threads : local_mktemp(t)
  \/ \E t \in Threads : local_save_to_file(t)
  \/ \E t \in Threads : local_runAndWait(t)
  \/ \E t \in Threads : local_engine_raises(t)
  \/ \E t \in Threads : local_read(t)
  \/ \E t \in Threads : local_read_raises(t)
  \/ \E t \in Threads : local_unlink(t)

ConcurrentSpec == ProviderInit /\ [][ConcurrentNext]_vars

(***************************************************************************)
(* list_all_voices running while another thread registers and unregisters  *)
(***************************************************************************)
AggNext ==
  \/ \E name \in Names, p \in {"E", "F"} : agg.pc = "idle" /\ register(name, p)
  \/ agg_call
  \/ agg_next
  \/ agg_list_voices
  \/ \E name \in Names, p \in {"E", "F"} : concurrent_register(name, p)
  \/ \E name \in Names : concurrent_unregister(name)

AggSpec == Init /\ [][AggNext]_vars

(***************************************************************************)
(* Properties of the registry and of the provider contract                 *)
(***************************************************************************)
Registered == {n \in Names : lastOp[n].op = "register"}

\* C4: after any sequence of register and unregister calls, get(n) is the
\* provider of the most recent register(n, p) that no unregister(n) followed
\* and None otherwise, and list_providers() is exactly the set of such names
\* (each once).
C4_GetIsLastRegistered ==
  /\ \A n \in Names :
       get(n) = IF lastOp[n].op = "register" THEN lastOp[n].provider ELSE NoneVal
  /\ Range(list_providers) = Registered
  /\ Len(list_providers) = Cardinality(Registered)

\* an alias of one provider object survives the unregistering of the other
\* name, after the first name had been overwritten
C4_Witness ==
  /\ lastOp["a"].op = "unregister"
  /\ lastOp["b"].op = "register"
  /\ get("b") = "K"
  /\ ret.op = "unregister"
  /\ ret.name = "a"

\* the voices a provider object lists, as <<provider object, index>>
ListedBy(p) ==
  CASE p = "E" -> [i \in 1..Len(PRESET_VOICES) |-> <<p, i>>]
    [] p = "K" -> [i \in 1..Len(CustomVoices) |-> <<p, i>>]
    [] p = "F" -> <<>>

\* one entry per (registration name, voice) pair of the providers that list
\* voices, in registry order
RECURSIVE ExpectedEntries(_)
ExpectedEntries(items) ==
  IF items = <<>> THEN <<>>
  ELSE LET l == ListedBy(Head(items).provider)
       IN  [i \in DOMAIN l |-> <<Head(items).name, l[i][1], l[i][2]>>]
           \o ExpectedEntries(Tail(items))

ReturnedEntries ==
  [i \in DOMAIN ret.voices |->
     <<ret.voices[i].via, ret.voices[i].from, ret.voices[i].ref[3]>>]

\* C5: list_all_voices() returns one entry per (registration name, voice)
\* pair, and when the list is returned the provider field of every entry is
\* the registration key through which the entry was reached.
C5_ProviderFieldIsKey ==
  ret.op = "list_all_voices" =>
    /\ ReturnedEntries = ExpectedEntries(providers)
    /\ \A i \in DOMAIN ret.voices :
         heap[ret.voices[i].ref].provider = ret.voices[i].via

\* C6: list_all_voices() does not raise when a provider's list_voices()
\* raises; it returns no voice of the failing provider and every voice of
\* every other registered provider, in registry order.
C6_FailingProviderSkipped ==
  ret.op = "list_all_voices" =>
    /\ ret.exc = ""
    /\ ReturnedEntries = ExpectedEntries(providers)
    /\ \A i \in DOMAIN ret.voices : ret.voices[i].from # "F"

\* the failing provider is first in the registry and a listing one follows
C6_Witness ==
  /\ ret.op = "list_all_voices"
  /\ Len(providers) = 2
  /\ providers[1].provider = "F"
  /\ providers[2].provider = "E"
  /\ Len(ret.voices) = Len(PRESET_VOICES)

IsName(arg) == arg # NoneVal /\ arg # ""

SynthesizeFailsEarly ==
  ret.op = "synthesize" =>
    /\ (IsName(ret.name) /\ ~HasKey(providers, ret.name)) =>
         /\ ret.exc = "ValueError"
         /\ ret.msg = "Provider not found: " \o ret.name
         /\ ret.invoked = <<>>
    /\ (ret.name = NoneVal /\ providers = <<>>) =>
         /\ ret.exc = "ValueError"
         /\ ret.msg = "No provider registered"
         /\ ret.invoked = <<>>

\* C7: registry.synthesize with a name that is not registered fails with
\* "Provider not found", and with no name on an empty registry with the
\* distinct "No provider registered"; in both cases no provider's synthesize
\* was invoked and the call left the registry contents unchanged.
C7_LookupFailures ==
  [][ret'.op = "synthesize" =>
       /\ SynthesizeFailsEarly'
       /\ ret'.exc = "ValueError" => providers' = providers]_vars

\* a lookup of an unregistered name failed while another provider was there
C7_Witness ==
  /\ ret.op = "synthesize"
  /\ ret.name = "ghost"
  /\ ret.msg = "Provider not found: ghost"
  /\ providers # <<>>

\* C8: registry.synthesize that returns has invoked exactly one provider's
\* synthesize(text, spk_id), the one registered under the given name or, with
\* no name, one that is registered now, and returns the concatenation of the
\* chunks that provider yielded, in order.
C8_SynthesizeConcatenates ==
  (ret.op = "synthesize" /\ ret.exc = "") =>
    /\ Len(ret.invoked) = 1
    /\ ret.invoked[1].text = "hello"
    /\ ret.invoked[1].spk_id = "default"
    /\ \E i \in DOMAIN providers : providers[i].provider = ret.invoked[1].provider
    /\ IsName(ret.name) =>
         \E i \in DOMAIN providers :
           /\ providers[i].name = ret.name
           /\ providers[i].provider = ret.invoked[1].provider
    /\ ret.audio = Concat(provider_synthesize(ret.invoked[1].provider,
                                              "hello", "default").chunks)

\* with no name, after the first registered name was unregistered, the
\* streaming provider that is still registered produced the audio
C8_Witness ==
  /\ ret.op = "synthesize"
  /\ ret.name = NoneVal
  /\ ret.exc = ""
  /\ lastOp["a"].op = "unregister"
  /\ ret.invoked[1].provider = "K"
  /\ ret.audio = <<3, 4, 5>>

\* the first 16 hexadecimal digits of the md5 of "{provider}:{id}:{language}"
DerivedHashId(provider, id, language) ==
  SubSeq(hashlib_md5_hexdigest(provider \o ":" \o id \o ":" \o language), 1, 16)

IsLowerHex16(s) ==
  /\ Len(s) = 16
  /\ \A i \in 1..16 : HasChar(HexDigits, CharAt(s, i))

ReturnsVoices == ret.op = "list_all_voices" \/ ret.op = "list_voices"

\* C9 as stated: the hash_id of every VoiceInfo a caller obtains is derived
\* from that VoiceInfo's own provider, id and language fields, and two
\* VoiceInfo with the same three fields have the same hash_id.
C9_HashOfOwnFields ==
  ReturnsVoices =>
    /\ \A i \in DOMAIN ret.voices :
         LET v == heap[ret.voices[i].ref]
         IN  /\ IsLowerHex16(v.hash_id)
             /\ v.hash_id = DerivedHashId(v.provider, v.id, v.language)
    /\ \A i, j \in DOMAIN ret.voices :
         LET v == heap[ret.voices[i].ref]
             w == heap[ret.voices[j].ref]
         IN  (v.provider = w.provider /\ v.id = w.id /\ v.language = w.language)
               => v.hash_id = w.hash_id

\* C9 amended: the hash_id of every VoiceInfo a caller obtains is the 16
\* lower-case hexadecimal digits derived from the provider string the
\* VoiceInfo was constructed with (its provider's own), its id and its
\* language; the registry's overwrite of the provider field leaves it as it
\* was, and two VoiceInfo constructed with the same three values have the
\* same hash_id.
C9_HashOfConstructionFields ==
  ReturnsVoices =>
    /\ \A i \in DOMAIN ret.voices :
         LET v == heap[ret.voices[i].ref]
         IN  /\ IsLowerHex16(v.hash_id)
             /\ v.hash_id = DerivedHashId(provider_stamp(ret.voices[i].from),
                                          v.id, v.language)
    /\ \A i, j \in DOMAIN ret.voices :
         LET v == heap[ret.voices[i].ref]
             w == heap[ret.voices[j].ref]
         IN  (/\ provider_stamp(ret.voices[i].from) = provider_stamp(ret.voices[j].from)
              /\ v.id = w.id
              /\ v.language = w.language)
               => v.hash_id = w.hash_id

\* the registry has overwritten the provider field of a returned English voice
C9_Witness ==
  /\ ret.op = "list_all_voices"
  /\ \E i \in DOMAIN ret.voices :
       /\ heap[ret.voices[i].ref].provider = "a"
       /\ heap[ret.voices[i].ref].language = "en"
       /\ ret.voices[i].from = "E"

\* the references of the voices provider object p lists, in list order
ListedRefs(p) == [i \in DOMAIN ListedBy(p) |-> <<p, "", i>>]

FirstMatch(p, hash_id) ==
  LET refs == ListedRefs(p)
      hits == {i \in DOMAIN refs : lower(heap[refs[i]].hash_id) = lower(hash_id)}
  IN  IF hits = {} THEN <<>>
      ELSE <<refs[CHOOSE i \in hits : \A j \in hits : i <= j]>>

\* C10: find_voice_by_hash_id(h) returns the first VoiceInfo in list_voices()
\* order whose hash_id equals h ignoring case, or None when there is none, and
\* it returns the same for every upper/lower-case variant of h.
C10_FindIgnoresCase ==
  ret.op = "find_voice_by_hash_id" =>
    \A h \in HashArgs :
      lower(h) = lower(ret.hash_id) =>
        LET f == provider_find_voice_by_hash_id(ret.provider, cached_objects(heap), h)
        IN  /\ f.raised = (ret.exc # "")
            /\ f.found = ret.found
            /\ ret.exc = "" => ret.found = FirstMatch(ret.provider, h)

\* the mixed-case form of a listed hash_id found the first of K's two voices
\* that share it
C10_Witness ==
  /\ ret.op = "find_voice_by_hash_id"
  /\ ret.provider = "K"
  /\ ret.hash_id # lower(ret.hash_id)
  /\ ret.hash_id # upper(ret.hash_id)
  /\ ret.found = <<<<"K", "", 1>>>>

(***************************************************************************)
(* Properties of TTSClient.start()                                         *)
(***************************************************************************)
ProcessingEvents(chunks) == [i \in DOMAIN chunks |-> TTSResult(0, NoneVal, chunks[i], 0)]

StartReturned == outcome.kind = "return"

StartRaised == pc = "raised" /\ outcome.exc # "OSError"

\* C1: on a fresh client, when the provider yields b1..bn and ends without
\* raising (and the callback, if set, returns), start() returns b1+...+bn and
\* the callback has received exactly PROCESSING(b1), ..., PROCESSING(bn) and
\* then one COMPLETED event carrying b1+...+bn.
C1_Accumulation ==
  /\ (calls = 1 /\ StartReturned) =>
       /\ outcome.value = Concat(yielded)
       /\ events = IF client.callback
                   THEN Append(ProcessingEvents(yielded),
                               TTSResult(1, NoneVal, Concat(yielded), 0))
                   ELSE <<>>
  /\ (calls = 1 /\ StartRaised) => cause # ""

\* three chunks were yielded and the call returned with the callback set
C1_Witness ==
  /\ calls = 1
  /\ pc = "returned"
  /\ client.callback
  /\ yielded = <<<<7>>, <<8, 9>>, <<7>>>>
  /\ Len(events) = 4

\* C2: when the provider raises after yielding b1..bk (and the callback, if
\* set, returns), the callback has received PROCESSING(b1)..PROCESSING(bk) and
\* then exactly one ERROR event with the exception's message, and start()
\* raises TTSError with that message; in no call does a COMPLETED event follow
\* an ERROR event.
C2_ErrorTranslation ==
  /\ (StartRaised /\ cause = "provider" /\ outcome.exc = "TTSError") =>
       /\ outcome.msg = ProviderMsg
       /\ events = IF client.callback
                   THEN Append(ProcessingEvents(yielded),
                               TTSResult(0 - 1, ProviderMsg, <<>>, 0))
                   ELSE <<>>
  /\ (pc = "except" /\ cause = "provider") =>
       /\ error_msg = ProviderMsg
       /\ events = IF client.callback THEN ProcessingEvents(yielded) ELSE <<>>
  /\ \A i, j \in DOMAIN events :
       (events[i].type = 0 - 1 /\ i < j) => events[j].type # 1

\* the provider raised after one chunk and the callback saw both events
C2_Witness ==
  /\ pc = "raised"
  /\ cause = "provider"
  /\ client.callback
  /\ Len(yielded) = 1
  /\ Len(events) = 2
  /\ outcome.exc = "TTSError"

\* C3: every exception that escapes start() (and convert() up to the file
\* save) is a TTSError, whatever raised during the call.
C3_OnlyTTSError == StartRaised => outcome.exc = "TTSError"

\* C18: in every start() call on a client, also a second or later one, the
\* buffer returned, and the buffer the COMPLETED event carries, are the
\* concatenation of exactly the chunks yielded during that call.
C18_EachCallFromScratch ==
  StartReturned =>
    /\ outcome.value = Concat(yielded)
    /\ \A i \in DOMAIN events :
         events[i].type = COMPLETED => events[i].audio = Concat(yielded)

\* C19: in every finished start() call with a callback set, the callback has
\* received exactly one terminal event (COMPLETED or ERROR), and it is the
\* last event of the call, also when the callback raised on a PROCESSING or
\* COMPLETED event.
C19_OneTerminalEvent ==
  (client.callback /\ calls > 0 /\ pc \in {"save", "returned", "raised"}) =>
    LET terminal == {i \in DOMAIN events : events[i].type \in {COMPLETED, ERROR}}
    IN  terminal = {Len(events)}

(***************************************************************************)
(* Properties of the providers                                             *)
(***************************************************************************)
MinOf(S) == CHOOSE i \in S : \A j \in S : i <= j

Finished(t) == thread_call[t].pc \in {"done", "raised"}

\* C11: list_voices() of the streaming and the local-engine provider never
\* raises, and when anything failed during the enumeration, also after some
\* voices were read, it returns an empty sequence.
C11_ListVoicesEmptyOnFailure ==
  \A t \in Threads :
    (thread_call[t].op = "list_voices" /\ Finished(t)) =>
      /\ thread_call[t].exc = ""
      /\ thread_call[t].failed => thread_call[t].listed = <<>>

\* C12: when a synthesize call of the Edge or the local-engine provider has
\* finished, by yielding its chunk or by raising after its temporary file
\* was created, that temporary file no longer exists.
C12_TempFileRemoved ==
  \A t \in Threads :
    (/\ thread_call[t].op = "synthesize"
     /\ thread_call[t].provider \in {"local", "edge"}
     /\ Finished(t)
     /\ thread_call[t].tmp_path # <<>>) =>
      thread_call[t].tmp_path \notin DOMAIN tmpfs

\* the thread's LocalTTSProvider.synthesize call has chosen its voice
LocalSelected(t) ==
  /\ thread_call[t].op = "synthesize"
  /\ thread_call[t].provider = "local"
  /\ thread_call[t].pc # "select"

\* C13: with a non-empty engine voice list, LocalTTSProvider.synthesize sets
\* the voice by the priority hash-id match, default-language match, first
\* engine voice: for "default" the first enumerated voice whose language is
\* the default language when there is one, and for an spk_id matching
\* nothing the engine's first voice.
C13_LocalResolutionChain ==
  \A t \in Threads :
    (LocalSelected(t) /\ engine.voices # <<>>) =>
      LET listed == [i \in DOMAIN engine.voices |-> local_voice_info(engine.voices[i])]
          spk    == thread_call[t].spk_id
          byHash == IF spk = "default" THEN {}
                    ELSE {i \in DOMAIN listed : lower(listed[i].hash_id) = lower(spk)}
          byLang == {i \in DOMAIN listed : listed[i].language = engine.default_language}
      IN  thread_call[t].voice =
            IF byHash # {} THEN engine.voices[MinOf(byHash)].id
            ELSE IF byLang # {} THEN engine.voices[MinOf(byLang)].id
            ELSE engine.voices[1].id

\* the thread's synthesize call has resolved its spk_id
Resolved(t) ==
  /\ thread_call[t].op = "synthesize"
  /\ thread_call[t].pc \notin {"select", "resolve"}
  /\ thread_call[t].exc # "list_voices"

\* the voices the provider of the thread's call knows
KnownVoices(t) ==
  CASE thread_call[t].provider = "local" ->
         [i \in DOMAIN engine.voices |-> local_voice_info(engine.voices[i])]
    [] thread_call[t].provider = "edge" -> edge_list_voices
    [] OTHER -> thread_call[t].listed

\* C14: every provider resolves an spk_id that is the native id of a known
\* voice, in any letter case, or the hash_id of a known voice, to exactly
\* that voice, and "default" to the provider's default voice.
C14_NativeIdAndHashAccepted ==
  \A t \in Threads :
    Resolved(t) =>
      LET known    == KnownVoices(t)
          spk      == thread_call[t].spk_id
          byNative == {i \in DOMAIN known : lower(known[i].id) = lower(spk)}
          byHash   == {i \in DOMAIN known : lower(known[i].hash_id) = lower(spk)}
      IN  /\ byNative # {} =>
               lower(thread_call[t].voice) = lower(known[MinOf(byNative)].id)
          /\ (byNative = {} /\ byHash # {}) =>
               thread_call[t].voice = known[MinOf(byHash)].id
          /\ (spk = "default" /\ thread_call[t].provider = "edge") =>
               thread_call[t].voice = DEFAULT_VOICE
          /\ (spk = "default" /\ thread_call[t].provider \in StreamVariants) =>
               thread_call[t].voice = "default"

\* the thread has set its voice (setProperty) and its runAndWait has not
\* completed
InSpan(t) ==
  /\ thread_call[t].provider = "local"
  /\ thread_call[t].voice # NoneVal
  /\ thread_call[t].pc \in {"mktemp", "save_to_file", "runAndWait"}

\* C15: two synthesize calls on one LocalTTSProvider never interleave between
\* a call's setProperty and the completion of its runAndWait, and the audio
\* a call reads back was spoken with the voice that call selected.
C15_EngineUseSerialized ==
  /\ \A t, u \in Threads : (t # u) => ~(InSpan(t) /\ InSpan(u))
  /\ \A t \in Threads :
       (thread_call[t].provider = "local" /\ thread_call[t].pc \in {"unlink", "done"}) =>
         thread_call[t].audio =
           <<[voice |-> thread_call[t].voice, text |-> thread_call[t].text]>>

\* C16: the spk_id form field of every POST is the native id of the first
\* listed voice whose hash_id equals the given spk_id ignoring case, or the
\* given spk_id when no listed voice matches; synthesize never fails
\* because of the voice enumeration.
C16_SpkIdFormField ==
  /\ \A i \in DOMAIN http.posts :
       LET post    == http.posts[i]
           matches == {k \in DOMAIN post.listed :
                         lower(post.listed[k].hash_id) = lower(post.given)}
       IN  post.spk_id = IF matches # {} THEN post.listed[MinOf(matches)].id
                         ELSE post.given
  /\ \A t \in Threads : thread_call[t].exc # "list_voices"

\* a hash id given in upper case was sent as the native id of its voice
C16_Witness ==
  \E i \in DOMAIN http.posts :
    /\ http.posts[i].given # lower(http.posts[i].given)
    /\ Len(http.posts[i].listed) = Len(VoiceItems)
    /\ http.posts[i].spk_id = "xiaoyan"

\* C17: a list_all_voices() call that runs while another thread registers and
\* unregisters does not raise, and every voice it returns comes from a
\* provider that was registered under the reported name at some moment
\* during the call.
C17_ConcurrentAggregation ==
  /\ agg.pc # "raised"
  /\ agg.pc = "returned" =>
       \A i \in DOMAIN agg.voices :
         <<agg.voices[i].provider, agg.voices[i].from>> \in agg.during
====
